---- MODULE Spec2Model ----
(***************************************************************************)
(* A model of the MCP server of package mcp: the session table, the POST / *)
(* GET / DELETE handlers of the unified endpoint, the legacy SSE endpoint, *)
(* the stream event loop with its keepalive timer, broadcastToSession and  *)
(* the cancellation registry.                                              *)
(*                                                                         *)
(* Every handler runs in its own goroutine.  A handler is cut into steps   *)
(* at the points where it takes sessionMutex or suspends: a critical       *)
(* section of sessionMutex is one step, the code between two critical      *)
(* sections that touches no shared state is folded into the step before it.*)
(***************************************************************************)
EXTENDS Integers, Sequences, FiniteSets, TLC

(***************************************************************************)
(* Bounds of the model.                                                    *)
(***************************************************************************)
MaxIds == 2
\* the pool uuid.New() draws from

MaxStreams == 3
\* stream connections (GET /mcp or GET /sse) over a run

MaxPairedStreams == 2
\* stream connections where the registry or the queues are looked at alone

MaxDeleters == 2
\* DELETE handlers that may be in flight at once

MaxBroadcasts == 11
\* calls of broadcastToSession over a run

MaxInflight == 2
\* POST requests inside processRequest at once

MaxLoopBroadcasts == 2
\* calls of broadcastToSession over a run where the event loop is looked at

TickSeconds == 15
\* granularity of the clock

(***************************************************************************)
(* Program constants.                                                      *)
(***************************************************************************)
ChanCap == 10
\* make(chan interface{}, 10)

KeepaliveSeconds == 30
\* time.After(30 * time.Second)

Ids == 1..MaxIds
\* session identifiers; an identifier is the string uuid.New().String()

NoId == 0
\* the empty string: what Header.Get returns for a missing or empty header

Headers == {NoId} \cup Ids
Streams == 1..MaxStreams
PairedStreams == 1..MaxPairedStreams
Deleters == 1..MaxDeleters

NilCapabilities == << >>
\* the nil map of a Session built without Capabilities

Null == [ID |-> NoId, Capabilities |-> NilCapabilities, MessageChannels |-> << >>]
\* no Session object: the identifier has not been drawn yet

DefaultCapabilities == [tools |-> [listChanged |-> TRUE]]

(***************************************************************************)
(* JSON values, as far as the decoders of the program tell them apart.     *)
(***************************************************************************)
Absent == [t |-> "absent"]
\* no bytes at all: a nil json.RawMessage, a field that is not in the object

JNull == [t |-> "null"]
JStr(s) == [t |-> "str", s |-> s]
JNum(n) == [t |-> "num", n |-> n]
JObj(o) == [t |-> "obj", o |-> o]

JBig(k) == [t |-> "num", n |-> k, hi |-> 1]
\* the number 2^53 + k, beyond the integers a float64 holds one by one

Garbage == [t |-> "garbage"]
\* a request body that json.Decoder cannot decode into a Request

Field(v, k) == IF k \in DOMAIN v.o THEN v.o[k] ELSE Absent

\* the nearest even integer, a tie going to the one whose half is even: what
\* strconv.ParseFloat makes of 2^53 + k, whose neighbours are 2 apart
RoundHalfEven(k) ==
    IF k % 2 = 0 THEN k
    ELSE IF ((k - 1) \div 2) % 2 = 0 THEN k - 1 ELSE k + 1

\* encoding/json into the interface{} of JSONRPC.ID: a number becomes a
\* float64, null leaves the nil interface (which omitempty then leaves out of
\* the response, as it does an id that was not sent), a string is itself
DecodeID(j) ==
    CASE j.t = "num" /\ "hi" \in DOMAIN j -> [j EXCEPT !.n = RoundHalfEven(j.n)]
      [] j.t \in {"null", "absent"} -> Absent
      [] OTHER -> j

\* encoding/json into a string field: absent and null leave "", a string is
\* stored, anything else is an UnmarshalTypeError
StringField(v, k) ==
    LET f == Field(v, k) IN
    CASE f.t = "str" -> [err |-> FALSE, s |-> f.s]
      [] f.t \in {"absent", "null"} -> [err |-> FALSE, s |-> ""]
      [] OTHER -> [err |-> TRUE, s |-> ""]

\* json.Unmarshal(data, &struct): no bytes is an error, null leaves the zero
\* value, an object is decoded field by field, any other value is an error
UnmarshalKind(v) ==
    CASE v.t = "obj" -> "object"
      [] v.t = "null" -> "zero"
      [] OTHER -> "error"

\* json.Unmarshal(req.Params, &toolReq), ToolCallRequest{Name, Arguments}
UnmarshalToolCallRequest(params) ==
    CASE UnmarshalKind(params) = "error" ->
            [err |-> TRUE, Name |-> "", Arguments |-> Absent]
      [] UnmarshalKind(params) = "zero" ->
            [err |-> FALSE, Name |-> "", Arguments |-> Absent]
      [] OTHER ->
            [err |-> StringField(params, "name").err,
             Name |-> StringField(params, "name").s,
             Arguments |-> Field(params, "arguments")]

\* json.Unmarshal(args, &weatherArgs), WeatherArgs{Location}
UnmarshalWeatherArgs(args) ==
    CASE UnmarshalKind(args) = "error" -> [err |-> TRUE, Location |-> ""]
      [] UnmarshalKind(args) = "zero" -> [err |-> FALSE, Location |-> ""]
      [] OTHER -> [err |-> StringField(args, "location").err,
                   Location |-> StringField(args, "location").s]

\* json.Unmarshal(req.Params, &cancelParams), CancellationParams{RequestID, Reason}
UnmarshalCancellationParams(params) ==
    CASE UnmarshalKind(params) = "error" -> [err |-> TRUE, RequestID |-> ""]
      [] UnmarshalKind(params) = "zero" -> [err |-> FALSE, RequestID |-> ""]
      [] OTHER ->
            [err |-> StringField(params, "requestId").err
                        \/ StringField(params, "reason").err,
             RequestID |-> StringField(params, "requestId").s]

(***************************************************************************)
(* Response envelopes.  NilPtr is the nil *json.RawMessage / *ErrorResponse*)
(* that omitempty leaves out; an id of Absent is the nil interface, left   *)
(* out as well.                                                            *)
(***************************************************************************)
NilPtr == [nil |-> TRUE]

Response(version, id, result, error) ==
    [jsonrpc |-> version, id |-> id, result |-> result, error |-> error]

ErrorResponse(code, message) == [code |-> code, message |-> message]

\* the zero Response
ZeroResponse == Response("", Absent, NilPtr, NilPtr)

NoBody == [none |-> TRUE]

Http(op, status, sid, body) ==
    [op |-> op, status |-> status, sid |-> sid, body |-> body]

NoResponse == Http("none", 0, NoId, NoBody)

\* http.Error(w, text, code)
HttpError(op, text, code) == Http(op, code, NoId, [text |-> text])

\* sendResponse: the envelope, under the default status 200
sendResponse(op, sid, envelope) == Http(op, 200, sid, envelope)

\* sendError: an envelope that carries the error and no id
sendError(op, err) == Http(op, 200, NoId, Response("2.0", Absent, NilPtr, err))

handlePing(req) == Response("2.0", req.id, JObj(<< >>), NilPtr)

weatherTool ==
    [name |-> "get_weather",
     description |-> "Get current weather information for a location",
     inputSchema |-> [type |-> "object", required |-> <<"location">>]]

getAvailableTools == <<weatherTool>>

handleToolsList(req) ==
    Response("2.0", req.id, JObj([tools |-> getAvailableTools]), NilPtr)

ToolResult(text, isError) ==
    [content |-> <<[type |-> "text", text |-> text]>>, isError |-> isError]

handleWeatherTool(reqID, args) ==
    LET weatherArgs == UnmarshalWeatherArgs(args) IN
    IF weatherArgs.err
    THEN Response("2.0", reqID,
                  ToolResult(<<"Failed to parse weather arguments">>, TRUE), NilPtr)
    ELSE Response("2.0", reqID,
                  ToolResult(<<"Current weather in ", weatherArgs.Location,
                               ":\nTemperature: 72F\nConditions: Partly cloudy">>, FALSE),
                  NilPtr)

handleToolCall(req) ==
    LET toolReq == UnmarshalToolCallRequest(req.params) IN
    IF toolReq.err
    THEN Response("2.0", req.id, NilPtr,
                  ErrorResponse(-32602, <<"Invalid tool call parameters">>))
    ELSE IF toolReq.Name = "get_weather"
    THEN handleWeatherTool(req.id, toolReq.Arguments)
    ELSE Response("2.0", req.id, NilPtr,
                  ErrorResponse(-32602, <<"Unknown tool: ", toolReq.Name>>))

MethodNotFound(req) ==
    Response("2.0", req.id, NilPtr,
             ErrorResponse(-32601, <<"Method not found: ", req.method>>))

VARIABLES
    sessions,        \* Server.sessions: the keys of the map; key k maps to &heap[k]
    heap,            \* the Session objects by identifier; Null where never allocated
    sessionMutex,    \* "unlocked", or "wlocked" / "rlocked" by a handler that panicked inside
    activeRequests,  \* Server.activeRequests: the request ids that have a cancel function
    cancelled,       \* the request ids whose cancel function has been invoked
    inflight,        \* the requests processRequest has been entered with and not left
    pc,              \* per stream handler: where it is
    kind,            \* per stream handler: "get", "legacy", or "none" before it starts
    sessionID,       \* per stream handler: the sessionID local (get), session.ID (legacy)
    notify,          \* per stream handler: r.Context().Done() is closed
    messageChan,     \* per stream handler: the buffer of its messageChan
    elapsed,         \* per stream handler: seconds since the pending select began (saturating)
    lastEvent,       \* per stream handler: the last event written to the stream
    emitted,         \* per stream handler: the numbers of the messages written as data events
    dpc,             \* per DELETE handler: where it is
    dsid,            \* per DELETE handler: its sessionID local
    broadcasts,      \* number of broadcastToSession calls so far
    resp             \* the response written by the last handler that answered

vars == <<sessions, heap, sessionMutex, activeRequests, cancelled, inflight, pc, kind,
          sessionID, notify, messageChan, elapsed, lastEvent, emitted, dpc, dsid, broadcasts, resp>>

streamVars == <<pc, kind, sessionID, notify, messageChan, elapsed, lastEvent, emitted>>
deleteVars == <<dpc, dsid>>
recordVars == <<activeRequests, cancelled>>
requestVars == <<activeRequests, cancelled, inflight>>

\* NewServer
Init ==
    /\ sessions = {}
    /\ heap = [i \in Ids |-> Null]
    /\ sessionMutex = "unlocked"
    /\ activeRequests = {}
    /\ cancelled = {}
    /\ inflight = {}
    /\ pc = [p \in Streams |-> "idle"]
    /\ kind = [p \in Streams |-> "none"]
    /\ sessionID = [p \in Streams |-> NoId]
    /\ notify = [p \in Streams |-> FALSE]
    /\ messageChan = [p \in Streams |-> << >>]
    /\ elapsed = [p \in Streams |-> 0]
    /\ lastEvent = [p \in Streams |-> "none"]
    /\ emitted = [p \in Streams |-> << >>]
    /\ dpc = [d \in Deleters |-> "idle"]
    /\ dsid = [d \in Deleters |-> NoId]
    /\ broadcasts = 0
    /\ resp = NoResponse

(***************************************************************************)
(* sessionMutex.  A critical section is one step, so the mutex is only     *)
(* ever seen held when its holder panicked before unlocking.               *)
(***************************************************************************)
CanLock == sessionMutex = "unlocked"
CanRLock == sessionMutex # "wlocked"

\* the identifiers uuid.New() has returned so far
Issued == {i \in Ids : heap[i] # Null}

\* a faulty variant: an identifier that may have been returned before
AnyUUID == Ids

\* uuid.New().String(): a random 128-bit identifier, never one returned before.
\* Identifiers are only ever compared for equality, so the fresh identifier
\* is taken to be the least unused one of the pool.
NewUUID == {i \in Ids \ Issued : \A j \in Ids \ Issued : i <= j}

\* Handlers are goroutines without identity: a new request takes the least
\* free slot.
FreeStream(p) == pc[p] = "idle" /\ \A q \in Streams : q < p => pc[q] # "idle"
FreeDeleter(d) == dpc[d] = "idle" /\ \A e \in Deleters : e < d => dpc[e] # "idle"

validateSession(id) ==
    IF id = NoId THEN FALSE ELSE id \in sessions

\* a closed channel: close(messageChan) is the last step of a stream handler
closed(c) == pc[c] = "done"

(***************************************************************************)
(* POST /mcp                                                               *)
(***************************************************************************)
Request(id, method, params) == [id |-> id, method |-> method, params |-> params]

\* the bodies a client posts
PostBodies ==
    { Garbage,
      Request(JNum(7), "initialize", Absent),
      Request(JNum(7), "ping", Absent),
      Request(JStr("a"), "foo/bar", Absent),
      Request(JNum(7), "tools/list", Absent),
      Request(JNum(7), "tools/call",
              JObj([name |-> JStr("get_weather"),
                    arguments |-> JObj([location |-> JStr("Boston")])])),
      Request(Absent, "notifications/cancelled", JObj([requestId |-> JStr("r1")])) }

\* json.NewDecoder(r.Body).Decode(&request): the id into an interface{}, the
\* method into a string, the params kept as the bytes they are
Decode(body) ==
    IF body = Garbage THEN Garbage
    ELSE Request(DecodeID(body.id), body.method, body.params)

NewSession(id, capabilities, channels) ==
    [ID |-> id, Capabilities |-> capabilities, MessageChannels |-> channels]

\* s.sessions[id] = session
Insert(id, session) ==
    /\ heap' = [heap EXCEPT ![id] = session]
    /\ sessions' = sessions \cup {id}

\* a faulty variant: a live session named in the header is handed back instead of a new one
handleInitializeReuse(req, header) ==
    /\ CanLock
    /\ IF header # NoId /\ header \in sessions
       THEN /\ resp' = sendResponse("POST", header,
                           Response("2.0", req.id,
                                    JObj([capabilities |-> heap[header].Capabilities]),
                                    NilPtr))
            /\ UNCHANGED <<sessions, heap>>
       ELSE \E id \in {i \in Ids : heap[i] = Null /\ \A j \in Ids : heap[j] = Null => i <= j} :
               /\ heap' = [heap EXCEPT ![id] =
                              [ID |-> id, Capabilities |-> DefaultCapabilities,
                               MessageChannels |-> << >>]]
               /\ sessions' = sessions \cup {id}
               /\ resp' = sendResponse("POST", id,
                              Response("2.0", req.id,
                                       JObj([capabilities |-> DefaultCapabilities]), NilPtr))
    /\ UNCHANGED <<sessionMutex, requestVars, streamVars, deleteVars, broadcasts>>

\* handleInitialize(w, r, req): the request's headers are at hand in r and
\* are not read
handleInitialize(req, header) ==
    /\ CanLock
    /\ \E id \in NewUUID :
          /\ Insert(id, NewSession(id, DefaultCapabilities, << >>))
          /\ resp' = sendResponse("POST", id,
                         Response("2.0", req.id,
                                  JObj([capabilities |-> DefaultCapabilities]), NilPtr))
    /\ UNCHANGED <<sessionMutex, requestVars, streamVars, deleteVars, broadcasts>>

handleCancellation(requestID) ==
    IF requestID \in activeRequests
    THEN /\ cancelled' = cancelled \cup {requestID}
         /\ activeRequests' = activeRequests \ {requestID}
    ELSE UNCHANGED recordVars

\* processRequest from its switch to its end; the registration of a cancel
\* function before the switch and its removal after are commented out
processRequest(req) ==
    LET cancelParams == UnmarshalCancellationParams(req.params) IN
    CASE req.method = "notifications/cancelled" /\ ~cancelParams.err ->
            /\ handleCancellation(cancelParams.RequestID)
            /\ resp' = Http("POST", 200, NoId, NoBody)
      [] req.method = "notifications/cancelled" /\ cancelParams.err ->
            /\ resp' = sendResponse("POST", NoId, ZeroResponse)
            /\ UNCHANGED recordVars
      [] req.method = "ping" ->
            /\ resp' = sendResponse("POST", NoId, handlePing(req))
            /\ UNCHANGED recordVars
      [] req.method = "tools/list" ->
            /\ resp' = sendResponse("POST", NoId, handleToolsList(req))
            /\ UNCHANGED recordVars
      [] req.method = "tools/call" ->
            /\ resp' = sendResponse("POST", NoId, handleToolCall(req))
            /\ UNCHANGED recordVars
      [] OTHER ->
            /\ resp' = sendResponse("POST", NoId, MethodNotFound(req))
            /\ UNCHANGED recordVars

\* a faulty variant: the session check is skipped
handlePostUnchecked(body, header) ==
    IF body = Garbage
    THEN /\ resp' = sendError("POST", ErrorResponse(-32700, <<"Parse error">>))
         /\ UNCHANGED <<sessions, heap, sessionMutex, requestVars, streamVars,
                        deleteVars, broadcasts>>
    ELSE IF body.method = "initialize"
    THEN handleInitialize(Decode(body), header)
    ELSE /\ CanRLock
         /\ processRequest(Decode(body))
         /\ UNCHANGED <<sessions, heap, sessionMutex, inflight, streamVars, deleteVars,
                        broadcasts>>

\* a faulty variant: the session is checked before the body is decoded
handlePostSessionFirst(body, header) ==
    IF body # Garbage /\ body.method = "initialize"
    THEN handleInitialize(Decode(body), header)
    ELSE /\ CanRLock
         /\ IF ~validateSession(header)
            THEN /\ resp' = HttpError("POST", "Invalid session", 404)
                 /\ UNCHANGED requestVars
            ELSE IF body = Garbage
            THEN /\ resp' = sendError("POST", ErrorResponse(-32700, <<"Parse error">>))
                 /\ UNCHANGED requestVars
            ELSE processRequest(Decode(body)) /\ UNCHANGED inflight
         /\ UNCHANGED <<sessions, heap, sessionMutex, streamVars, deleteVars, broadcasts>>

handlePost(body, header) ==
    IF body = Garbage
    THEN /\ resp' = sendError("POST", ErrorResponse(-32700, <<"Parse error">>))
         /\ UNCHANGED <<sessions, heap, sessionMutex, requestVars, streamVars,
                        deleteVars, broadcasts>>
    ELSE IF body.method = "initialize"
    THEN handleInitialize(Decode(body), header)
    ELSE /\ CanRLock
         /\ IF ~validateSession(header)
            THEN /\ resp' = HttpError("POST", "Invalid session", 404)
                 /\ UNCHANGED requestVars
            ELSE processRequest(Decode(body)) /\ UNCHANGED inflight
         /\ UNCHANGED <<sessions, heap, sessionMutex, streamVars, deleteVars, broadcasts>>

\* the same handler in two steps, for a request that is not initialize and
\* names a valid session: up to the entry of processRequest, where the cancel
\* function would be stored, ...
PostBegin(body, header) ==
    /\ body # Garbage
    /\ body.method # "initialize"
    /\ CanRLock
    /\ validateSession(header)
    /\ Cardinality(inflight) < MaxInflight
    /\ Decode(body) \notin inflight
    /\ inflight' = inflight \cup {Decode(body)}
    /\ UNCHANGED <<sessions, heap, sessionMutex, recordVars, streamVars, deleteVars,
                   broadcasts, resp>>

\* ... and from there to the response
PostEnd(req) ==
    /\ req \in inflight
    /\ processRequest(req)
    /\ inflight' = inflight \ {req}
    /\ UNCHANGED <<sessions, heap, sessionMutex, streamVars, deleteVars, broadcasts>>

\* HandleMCP, the default branch of the switch on r.Method
MethodNotAllowed ==
    /\ resp' = HttpError("OTHER", "Method not allowed", 405)
    /\ UNCHANGED <<sessions, heap, sessionMutex, requestVars, streamVars,
                   deleteVars, broadcasts>>

(***************************************************************************)
(* DELETE /mcp: validateSession under the read lock, then the delete under *)
(* the write lock.                                                         *)
(***************************************************************************)
\* a faulty variant: an invalid session is answered 404, as POST and GET answer it
DeleteValidate404(d, header) ==
    /\ FreeDeleter(d)
    /\ CanRLock
    /\ IF validateSession(header)
       THEN /\ dpc' = [dpc EXCEPT ![d] = "delete"]
            /\ dsid' = [dsid EXCEPT ![d] = header]
            /\ UNCHANGED resp
       ELSE /\ resp' = HttpError("DELETE", "Invalid session", 404)
            /\ UNCHANGED deleteVars
    /\ UNCHANGED <<sessions, heap, sessionMutex, requestVars, streamVars, broadcasts>>

DeleteValidate(d, header) ==
    /\ FreeDeleter(d)
    /\ CanRLock
    /\ IF validateSession(header)
       THEN /\ dpc' = [dpc EXCEPT ![d] = "delete"]
            /\ dsid' = [dsid EXCEPT ![d] = header]
            /\ UNCHANGED resp
       ELSE /\ resp' = Http("DELETE", 204, NoId, NoBody)
            /\ UNCHANGED deleteVars
    /\ UNCHANGED <<sessions, heap, sessionMutex, requestVars, streamVars, broadcasts>>

DeleteSession(d) ==
    /\ dpc[d] = "delete"
    /\ CanLock
    /\ sessions' = sessions \ {dsid[d]}
    /\ resp' = Http("DELETE", 204, NoId, NoBody)
    /\ dpc' = [dpc EXCEPT ![d] = "idle"]
    /\ dsid' = [dsid EXCEPT ![d] = NoId]
    /\ UNCHANGED <<heap, sessionMutex, requestVars, streamVars, broadcasts>>

(***************************************************************************)
(* GET /mcp: the unified stream endpoint.                                  *)
(***************************************************************************)
Min(a, b) == IF a < b THEN a ELSE b

\* a faulty variant: the last channel is moved into the place of the one removed
RemoveSwap(chans, c) ==
    IF \E i \in 1..Len(chans) : chans[i] = c
    THEN LET i == CHOOSE k \in 1..Len(chans) : chans[k] = c
             moved == [chans EXCEPT ![i] = chans[Len(chans)]]
         IN SubSeq(moved, 1, Len(chans) - 1)
    ELSE chans

\* the session's channel list without its first occurrence of channel c
RemoveFirst(chans, c) ==
    IF \E i \in 1..Len(chans) : chans[i] = c
    THEN LET i == CHOOSE k \in 1..Len(chans) :
                      chans[k] = c /\ \A j \in 1..(k - 1) : chans[j] # c
         IN SubSeq(chans, 1, i - 1) \o SubSeq(chans, i + 1, Len(chans))
    ELSE chans

\* validateSession, the Flusher check and make(chan interface{}, 10)
GetConnect(p, header, flusher) ==
    /\ FreeStream(p)
    /\ CanRLock
    /\ IF ~validateSession(header)
       THEN /\ resp' = HttpError("GET", "Invalid session", 404)
            /\ UNCHANGED streamVars
       ELSE IF ~flusher
       THEN /\ resp' = HttpError("GET", "Streaming unsupported", 500)
            /\ UNCHANGED streamVars
       ELSE /\ pc' = [pc EXCEPT ![p] = "attach"]
            /\ kind' = [kind EXCEPT ![p] = "get"]
            /\ sessionID' = [sessionID EXCEPT ![p] = header]
            /\ messageChan' = [messageChan EXCEPT ![p] = << >>]
            /\ UNCHANGED <<notify, elapsed, lastEvent, emitted, resp>>
    /\ UNCHANGED <<sessions, heap, sessionMutex, requestVars, deleteVars, broadcasts>>

\* a faulty variant: the handler goes from the attach straight into its loop
GetAttachStartsLoop(p) ==
    /\ pc[p] = "attach"
    /\ CanLock
    /\ IF sessionID[p] \in sessions
       THEN /\ heap' = [heap EXCEPT ![sessionID[p]].MessageChannels = Append(@, p)]
            /\ pc' = [pc EXCEPT ![p] = "loop"]
            /\ UNCHANGED sessionMutex
       ELSE /\ sessionMutex' = "wlocked"
            /\ pc' = [pc EXCEPT ![p] = "panic"]
            /\ UNCHANGED heap
    /\ UNCHANGED <<sessions, requestVars, kind, sessionID, notify, messageChan,
                   elapsed, lastEvent, emitted, deleteVars, broadcasts, resp>>

\* Lock; session := s.sessions[sessionID]; append; Unlock.  A session that is
\* no longer in the map gives a nil session: session.MessageChannels panics
\* with the mutex held, before the cleanup is deferred.
GetAttach(p) ==
    /\ pc[p] = "attach"
    /\ CanLock
    /\ IF sessionID[p] \in sessions
       THEN /\ heap' = [heap EXCEPT ![sessionID[p]].MessageChannels = Append(@, p)]
            /\ pc' = [pc EXCEPT ![p] = "connected"]
            /\ UNCHANGED sessionMutex
       ELSE /\ sessionMutex' = "wlocked"
            /\ pc' = [pc EXCEPT ![p] = "panic"]
            /\ UNCHANGED heap
    /\ UNCHANGED <<sessions, requestVars, kind, sessionID, notify, messageChan,
                   elapsed, lastEvent, emitted, deleteVars, broadcasts, resp>>

\* event: connected, then the first select of the loop begins
GetConnected(p) ==
    /\ pc[p] = "connected"
    /\ lastEvent' = [lastEvent EXCEPT ![p] = "connected"]
    /\ UNCHANGED emitted
    /\ elapsed' = [elapsed EXCEPT ![p] = 0]
    /\ pc' = [pc EXCEPT ![p] = "loop"]
    /\ UNCHANGED <<sessions, heap, sessionMutex, requestVars, kind, sessionID, notify,
                   messageChan, deleteVars, broadcasts, resp>>

\* a faulty variant: the unified stream tears its session down as the legacy stream does
GetCleanupTeardown(p) ==
    /\ pc[p] = "cleanup"
    /\ kind[p] = "get"
    /\ CanLock
    /\ sessions' = sessions \ {sessionID[p]}
    /\ heap' = [heap EXCEPT ![sessionID[p]].MessageChannels = RemoveFirst(@, p)]
    /\ messageChan' = [messageChan EXCEPT ![p] = << >>]
    /\ pc' = [pc EXCEPT ![p] = "close"]
    /\ UNCHANGED <<sessionMutex, requestVars, kind, sessionID, notify,
                   elapsed, lastEvent, emitted, deleteVars, broadcasts, resp>>

\* a faulty variant: the channel is left in the session's list
GetCleanupKeepsChannel(p) ==
    /\ pc[p] = "cleanup"
    /\ kind[p] = "get"
    /\ CanLock
    /\ messageChan' = [messageChan EXCEPT ![p] = << >>]
    /\ pc' = [pc EXCEPT ![p] = "close"]
    /\ UNCHANGED <<sessions, heap, sessionMutex, requestVars, kind, sessionID, notify,
                   elapsed, lastEvent, emitted, deleteVars, broadcasts, resp>>

\* the deferred cleanup of handleGet, up to Unlock
GetCleanup(p) ==
    /\ pc[p] = "cleanup"
    /\ kind[p] = "get"
    /\ CanLock
    /\ heap' = [heap EXCEPT ![sessionID[p]].MessageChannels = RemoveFirst(@, p)]
    /\ messageChan' = [messageChan EXCEPT ![p] = << >>]
    /\ pc' = [pc EXCEPT ![p] = "close"]
    /\ UNCHANGED <<sessions, sessionMutex, requestVars, kind, sessionID, notify,
                   elapsed, lastEvent, emitted, deleteVars, broadcasts, resp>>

\* a faulty variant: the session is registered before the streaming check
LegacyConnectRegistersFirst(p, flusher) ==
    /\ FreeStream(p)
    /\ CanLock
    /\ \E id \in NewUUID :
          /\ Insert(id, NewSession(id, NilCapabilities, <<p>>))
          /\ sessionID' = [sessionID EXCEPT ![p] = id]
    /\ IF ~flusher
       THEN /\ resp' = HttpError("SSE", "Streaming unsupported", 500)
            /\ UNCHANGED <<pc, kind, notify, messageChan, elapsed, lastEvent, emitted>>
       ELSE /\ pc' = [pc EXCEPT ![p] = "loop"]
            /\ kind' = [kind EXCEPT ![p] = "legacy"]
            /\ lastEvent' = [lastEvent EXCEPT ![p] = "endpoint"]
            /\ messageChan' = [messageChan EXCEPT ![p] = << >>]
            /\ elapsed' = [elapsed EXCEPT ![p] = 0]
            /\ UNCHANGED <<notify, emitted, resp>>
    /\ UNCHANGED <<sessionMutex, requestVars, deleteVars, broadcasts>>

(***************************************************************************)
(* GET /sse: the legacy stream endpoint.                                   *)
(***************************************************************************)
\* the Flusher check, event: endpoint and make(chan interface{}, 10)
LegacyConnect(p, flusher) ==
    /\ FreeStream(p)
    /\ IF ~flusher
       THEN /\ resp' = HttpError("SSE", "Streaming unsupported", 500)
            /\ UNCHANGED streamVars
       ELSE /\ pc' = [pc EXCEPT ![p] = "register"]
            /\ kind' = [kind EXCEPT ![p] = "legacy"]
            /\ lastEvent' = [lastEvent EXCEPT ![p] = "endpoint"]
            /\ UNCHANGED emitted
            /\ messageChan' = [messageChan EXCEPT ![p] = << >>]
            /\ UNCHANGED <<sessionID, notify, elapsed, resp>>
    /\ UNCHANGED <<sessions, heap, sessionMutex, requestVars, deleteVars, broadcasts>>

\* Lock; session := &Session{uuid, {messageChan}}; s.sessions[session.ID] = session; Unlock
LegacyRegister(p) ==
    /\ pc[p] = "register"
    /\ CanLock
    /\ \E id \in NewUUID :
          /\ Insert(id, NewSession(id, NilCapabilities, <<p>>))
          /\ sessionID' = [sessionID EXCEPT ![p] = id]
    /\ elapsed' = [elapsed EXCEPT ![p] = 0]
    /\ pc' = [pc EXCEPT ![p] = "loop"]
    /\ UNCHANGED <<sessionMutex, requestVars, kind, notify, messageChan, lastEvent, emitted,
                   deleteVars, broadcasts, resp>>

\* a faulty variant: the legacy stream only detaches its channel, as the unified one does
LegacyCleanupDetach(p) ==
    /\ pc[p] = "cleanup"
    /\ kind[p] = "legacy"
    /\ CanLock
    /\ heap' = [heap EXCEPT ![sessionID[p]].MessageChannels = RemoveFirst(@, p)]
    /\ messageChan' = [messageChan EXCEPT ![p] = << >>]
    /\ pc' = [pc EXCEPT ![p] = "close"]
    /\ UNCHANGED <<sessions, sessionMutex, requestVars, kind, sessionID, notify,
                   elapsed, lastEvent, emitted, deleteVars, broadcasts, resp>>

\* the deferred cleanup of HandleLegacySSE, up to Unlock
LegacyCleanup(p) ==
    /\ pc[p] = "cleanup"
    /\ kind[p] = "legacy"
    /\ CanLock
    /\ sessions' = sessions \ {sessionID[p]}
    /\ messageChan' = [messageChan EXCEPT ![p] = << >>]
    /\ pc' = [pc EXCEPT ![p] = "close"]
    /\ UNCHANGED <<heap, sessionMutex, requestVars, kind, sessionID, notify,
                   elapsed, lastEvent, emitted, deleteVars, broadcasts, resp>>

(***************************************************************************)
(* The event loop both endpoints run, and the end of their cleanup.  What  *)
(* a handler that has left its loop can no longer read (the timer, and     *)
(* after the cleanup's critical section the buffer of its channel, which   *)
(* no sender can reach any more) is reset.                                 *)
(***************************************************************************)
\* The client goes away: the request's context is done.  Nothing reads
\* notify before the loop, so a client that goes away earlier is seen as one
\* that goes away as the loop begins.
Disconnect(p) ==
    /\ pc[p] = "loop"
    /\ ~notify[p]
    /\ notify' = [notify EXCEPT ![p] = TRUE]
    /\ UNCHANGED <<sessions, heap, sessionMutex, requestVars, pc, kind, sessionID,
                   messageChan, elapsed, lastEvent, emitted, deleteVars, broadcasts, resp>>

\* case <-notify: return, which runs the deferred cleanup
LoopDisconnect(p) ==
    /\ pc[p] = "loop"
    /\ notify[p]
    /\ pc' = [pc EXCEPT ![p] = "cleanup"]
    /\ elapsed' = [elapsed EXCEPT ![p] = 0]
    /\ UNCHANGED <<sessions, heap, sessionMutex, requestVars, kind, sessionID, notify,
                   messageChan, lastEvent, emitted, deleteVars, broadcasts, resp>>

\* a faulty variant: the loop writes the oldest message and drops the rest of the queue
LoopMessageDrains(p) ==
    /\ pc[p] = "loop"
    /\ messageChan[p] # << >>
    /\ messageChan' = [messageChan EXCEPT ![p] = << >>]
    /\ lastEvent' = [lastEvent EXCEPT
                        ![p] = IF Head(messageChan[p]).encodable THEN "data" ELSE @]
    /\ emitted' = [emitted EXCEPT
                      ![p] = IF Head(messageChan[p]).encodable
                             THEN Append(@, Head(messageChan[p]).seq) ELSE @]
    /\ elapsed' = [elapsed EXCEPT ![p] = 0]
    /\ UNCHANGED <<sessions, heap, sessionMutex, requestVars, pc, kind, sessionID,
                   notify, deleteVars, broadcasts, resp>>

\* a faulty variant: a message that fails to encode leaves the keepalive timer running
LoopMessageKeepsTimer(p) ==
    /\ pc[p] = "loop"
    /\ messageChan[p] # << >>
    /\ messageChan' = [messageChan EXCEPT ![p] = Tail(@)]
    /\ lastEvent' = [lastEvent EXCEPT
                        ![p] = IF Head(messageChan[p]).encodable THEN "data" ELSE @]
    /\ emitted' = [emitted EXCEPT
                      ![p] = IF Head(messageChan[p]).encodable
                             THEN Append(@, Head(messageChan[p]).seq) ELSE @]
    /\ elapsed' = [elapsed EXCEPT
                      ![p] = IF Head(messageChan[p]).encodable THEN 0 ELSE @]
    /\ UNCHANGED <<sessions, heap, sessionMutex, requestVars, pc, kind, sessionID,
                   notify, deleteVars, broadcasts, resp>>

\* a faulty variant: the newest message of the queue is taken, not the oldest
LoopMessageTakesLast(p) ==
    LET n == Len(messageChan[p]) IN
    /\ pc[p] = "loop"
    /\ messageChan[p] # << >>
    /\ messageChan' = [messageChan EXCEPT ![p] = SubSeq(@, 1, n - 1)]
    /\ lastEvent' = [lastEvent EXCEPT
                        ![p] = IF messageChan[p][n].encodable THEN "data" ELSE @]
    /\ emitted' = [emitted EXCEPT
                      ![p] = IF messageChan[p][n].encodable
                             THEN Append(@, messageChan[p][n].seq) ELSE @]
    /\ elapsed' = [elapsed EXCEPT ![p] = 0]
    /\ UNCHANGED <<sessions, heap, sessionMutex, requestVars, pc, kind, sessionID,
                   notify, deleteVars, broadcasts, resp>>

\* case msg := <-messageChan: a message json.Marshal rejects is skipped
LoopMessage(p) ==
    /\ pc[p] = "loop"
    /\ messageChan[p] # << >>
    /\ messageChan' = [messageChan EXCEPT ![p] = Tail(@)]
    /\ lastEvent' = [lastEvent EXCEPT
                        ![p] = IF Head(messageChan[p]).encodable THEN "data" ELSE @]
    /\ emitted' = [emitted EXCEPT
                      ![p] = IF Head(messageChan[p]).encodable
                             THEN Append(@, Head(messageChan[p]).seq) ELSE @]
    /\ elapsed' = [elapsed EXCEPT ![p] = 0]
    /\ UNCHANGED <<sessions, heap, sessionMutex, requestVars, pc, kind, sessionID,
                   notify, deleteVars, broadcasts, resp>>

\* a faulty variant: the handler returns after the keepalive
LoopKeepaliveReturns(p) ==
    /\ pc[p] = "loop"
    /\ elapsed[p] >= KeepaliveSeconds
    /\ lastEvent' = [lastEvent EXCEPT ![p] = "keepalive"]
    /\ UNCHANGED emitted
    /\ elapsed' = [elapsed EXCEPT ![p] = 0]
    /\ pc' = [pc EXCEPT ![p] = "cleanup"]
    /\ UNCHANGED <<sessions, heap, sessionMutex, requestVars, kind, sessionID,
                   notify, messageChan, deleteVars, broadcasts, resp>>

\* case <-time.After(30 * time.Second): the keepalive comment
LoopKeepalive(p) ==
    /\ pc[p] = "loop"
    /\ elapsed[p] >= KeepaliveSeconds
    /\ lastEvent' = [lastEvent EXCEPT ![p] = "keepalive"]
    /\ UNCHANGED emitted
    /\ elapsed' = [elapsed EXCEPT ![p] = 0]
    /\ UNCHANGED <<sessions, heap, sessionMutex, requestVars, pc, kind, sessionID,
                   notify, messageChan, deleteVars, broadcasts, resp>>

\* close(messageChan), after the cleanup's Unlock; the handler returns and
\* its locals are gone
CloseChan(p) ==
    /\ pc[p] = "close"
    /\ pc' = [pc EXCEPT ![p] = "done"]
    /\ sessionID' = [sessionID EXCEPT ![p] = NoId]
    /\ notify' = [notify EXCEPT ![p] = FALSE]
    /\ lastEvent' = [lastEvent EXCEPT ![p] = "none"]
    /\ emitted' = [emitted EXCEPT ![p] = << >>]
    /\ UNCHANGED <<sessions, heap, sessionMutex, requestVars, kind, messageChan,
                   elapsed, deleteVars, broadcasts, resp>>

\* time passes for every stream suspended in its select
Tick ==
    /\ \E p \in Streams : pc[p] = "loop" /\ elapsed[p] < KeepaliveSeconds
    /\ elapsed' = [p \in Streams |->
                      IF pc[p] = "loop"
                      THEN Min(elapsed[p] + TickSeconds, KeepaliveSeconds)
                      ELSE elapsed[p]]
    /\ UNCHANGED <<sessions, heap, sessionMutex, requestVars, pc, kind, sessionID,
                   notify, messageChan, lastEvent, emitted, deleteVars, broadcasts, resp>>

(***************************************************************************)
(* broadcastToSession                                                      *)
(***************************************************************************)
Message(n, encodable) == [seq |-> n, encodable |-> encodable]

\* a faulty variant: a full channel gives up its oldest message for the new one
RECURSIVE FanoutEvict(_, _, _)
FanoutEvict(chans, buffers, message) ==
    IF chans = << >>
    THEN [buffers |-> buffers, panic |-> FALSE]
    ELSE LET ch == Head(chans) IN
         IF pc[ch] = "done"
         THEN [buffers |-> buffers, panic |-> TRUE]
         ELSE IF Len(buffers[ch]) < ChanCap
         THEN FanoutEvict(Tail(chans), [buffers EXCEPT ![ch] = Append(@, message)],
                          message)
         ELSE FanoutEvict(Tail(chans),
                          [buffers EXCEPT ![ch] = Append(Tail(@), message)], message)

\* a faulty variant: the range ends at the first channel that is full
RECURSIVE FanoutStopsAtFull(_, _, _)
FanoutStopsAtFull(chans, buffers, message) ==
    IF chans = << >>
    THEN [buffers |-> buffers, panic |-> FALSE]
    ELSE LET ch == Head(chans) IN
         IF closed(ch)
         THEN [buffers |-> buffers, panic |-> TRUE]
         ELSE IF Len(buffers[ch]) < ChanCap
         THEN FanoutStopsAtFull(Tail(chans),
                                [buffers EXCEPT ![ch] = Append(@, message)], message)
         ELSE [buffers |-> buffers, panic |-> FALSE]

\* the range over session.MessageChannels: a non-blocking send on each
\* channel in turn; a send on a closed channel panics and ends the range
RECURSIVE Fanout(_, _, _)
Fanout(chans, buffers, message) ==
    IF chans = << >>
    THEN [buffers |-> buffers, panic |-> FALSE]
    ELSE LET ch == Head(chans) IN
         IF closed(ch)
         THEN [buffers |-> buffers, panic |-> TRUE]
         ELSE IF Len(buffers[ch]) < ChanCap
         THEN Fanout(Tail(chans), [buffers EXCEPT ![ch] = Append(@, message)], message)
         ELSE Fanout(Tail(chans), buffers, message)

\* a faulty variant: the return for an unknown session leaves the read lock held
broadcastToSessionKeepsRLock(id, message) ==
    /\ CanRLock
    /\ IF id \notin sessions
       THEN /\ sessionMutex' = "rlocked"
            /\ UNCHANGED messageChan
       ELSE LET sent == Fanout(heap[id].MessageChannels, messageChan, message) IN
            /\ messageChan' = sent.buffers
            /\ sessionMutex' = IF sent.panic THEN "rlocked" ELSE sessionMutex
    /\ UNCHANGED <<sessions, heap, requestVars, pc, kind, sessionID, notify, elapsed,
                   lastEvent, emitted, deleteVars, resp>>

broadcastToSession(id, message) ==
    /\ CanRLock
    /\ IF id \notin sessions
       THEN UNCHANGED <<messageChan, sessionMutex>>
       ELSE LET sent == Fanout(heap[id].MessageChannels, messageChan, message) IN
            /\ messageChan' = sent.buffers
            /\ sessionMutex' = IF sent.panic THEN "rlocked" ELSE sessionMutex
    /\ UNCHANGED <<sessions, heap, requestVars, pc, kind, sessionID, notify, elapsed,
                   lastEvent, emitted, deleteVars, resp>>

Broadcast(id, encodable) ==
    /\ broadcasts < MaxBroadcasts
    /\ broadcasts' = broadcasts + 1
    /\ broadcastToSession(id, Message(broadcasts + 1, encodable))

(***************************************************************************)
(* The server.                                                             *)
(***************************************************************************)
Next ==
    \/ \E body \in PostBodies, header \in Headers : handlePost(body, header)
    \/ \E body \in PostBodies, header \in Headers : PostBegin(body, header)
    \/ \E req \in inflight : PostEnd(req)
    \/ MethodNotAllowed
    \/ \E d \in Deleters, header \in Headers : DeleteValidate(d, header)
    \/ \E d \in Deleters : DeleteSession(d)
    \/ \E p \in Streams, header \in Headers, flusher \in BOOLEAN :
          GetConnect(p, header, flusher)
    \/ \E p \in Streams : GetAttach(p)
    \/ \E p \in Streams : GetConnected(p)
    \/ \E p \in Streams : GetCleanup(p)
    \/ \E p \in Streams, flusher \in BOOLEAN : LegacyConnect(p, flusher)
    \/ \E p \in Streams : LegacyRegister(p)
    \/ \E p \in Streams : LegacyCleanup(p)
    \/ \E p \in Streams : Disconnect(p)
    \/ \E p \in Streams : LoopDisconnect(p)
    \/ \E p \in Streams : LoopMessage(p)
    \/ \E p \in Streams : LoopKeepalive(p)
    \/ \E p \in Streams : CloseChan(p)
    \/ Tick
    \/ \E id \in Headers, encodable \in BOOLEAN : Broadcast(id, encodable)

Spec == Init /\ [][Next]_vars

(***************************************************************************)
(* The session registry on its own: the handlers that read or write the    *)
(* session table, without the clock and without messages.                  *)
(***************************************************************************)
SessionBodies ==
    {b \in PostBodies \ {Garbage} :
        b.method \in {"initialize", "ping", "tools/call", "notifications/cancelled"}}

NextSessions ==
    \/ \E body \in SessionBodies, header \in Headers : handlePost(body, header)
    \/ \E d \in Deleters, header \in Headers : DeleteValidate(d, header)
    \/ \E d \in Deleters : DeleteSession(d)
    \/ \E p \in PairedStreams, header \in Headers : GetConnect(p, header, TRUE)
    \/ \E p \in PairedStreams : GetAttach(p)
    \/ \E p \in PairedStreams : GetConnected(p)
    \/ \E p \in PairedStreams : GetCleanup(p)
    \/ \E p \in PairedStreams : LegacyConnect(p, TRUE)
    \/ \E p \in PairedStreams : LegacyRegister(p)
    \/ \E p \in PairedStreams : LegacyCleanup(p)
    \/ \E p \in PairedStreams : Disconnect(p)
    \/ \E p \in PairedStreams : LoopDisconnect(p)
    \/ \E p \in PairedStreams : CloseChan(p)

SpecSessions == Init /\ [][NextSessions]_vars

(***************************************************************************)
(* Subscriber queues on their own: sessions, unified streams that attach   *)
(* and read, and broadcasts to a single session; no stream ends and no     *)
(* session is removed.                                                     *)
(***************************************************************************)
InitializeBodies == {b \in PostBodies \ {Garbage} : b.method = "initialize"}

NextQueues ==
    \/ \E body \in InitializeBodies : sessions = {} /\ handlePost(body, NoId)
    \/ \E p \in PairedStreams, header \in Headers : GetConnect(p, header, TRUE)
    \/ \E p \in PairedStreams : GetAttach(p)
    \/ \E p \in PairedStreams : GetConnected(p)
    \/ \E p \in PairedStreams : LoopMessage(p)
    \/ \E id \in sessions : Broadcast(id, TRUE)

SpecQueues == Init /\ [][NextQueues]_vars

(***************************************************************************)
(* Streams on their own: sessions, unified and legacy streams that come    *)
(* and go, and DELETE; no clock and no messages.                           *)
(***************************************************************************)
NextStreams ==
    \/ \E body \in InitializeBodies : handlePost(body, NoId)
    \/ \E header \in Headers : DeleteValidate(1, header)
    \/ DeleteSession(1)
    \/ \E p \in Streams, header \in Headers : GetConnect(p, header, TRUE)
    \/ \E p \in Streams : GetAttach(p)
    \/ \E p \in Streams : GetConnected(p)
    \/ \E p \in Streams : GetCleanup(p)
    \/ \E p \in Streams : LegacyConnect(p, TRUE)
    \/ \E p \in Streams : LegacyRegister(p)
    \/ \E p \in Streams : LegacyCleanup(p)
    \/ \E p \in Streams : Disconnect(p)
    \/ \E p \in Streams : LoopDisconnect(p)
    \/ \E p \in Streams : CloseChan(p)

SpecStreams == Init /\ [][NextStreams]_vars

(***************************************************************************)
(* The event loop: one initialize, two streams of either kind with the     *)
(* clock, a few messages and the clients' disconnects.  FairLoop adds what *)
(* the Go scheduler gives: a goroutine that can take a step takes it, a    *)
(* select whose case stays ready takes that case (the choice among ready   *)
(* cases is uniformly random), and time passes.  Requests and disconnects  *)
(* are the clients' and come or not; the requests here name a session of   *)
(* the table.                                                              *)
(***************************************************************************)
NextLoop ==
    \/ \E body \in InitializeBodies : Issued = {} /\ handlePost(body, NoId)
    \/ \E p \in PairedStreams, header \in sessions : GetConnect(p, header, TRUE)
    \/ \E p \in PairedStreams : GetAttach(p)
    \/ \E p \in PairedStreams : GetConnected(p)
    \/ \E p \in PairedStreams : GetCleanup(p)
    \/ \E p \in PairedStreams : LegacyConnect(p, TRUE)
    \/ \E p \in PairedStreams : LegacyRegister(p)
    \/ \E p \in PairedStreams : LegacyCleanup(p)
    \/ \E p \in PairedStreams : Disconnect(p)
    \/ \E p \in PairedStreams : LoopDisconnect(p)
    \/ \E p \in PairedStreams : LoopMessage(p)
    \/ \E p \in PairedStreams : LoopKeepalive(p)
    \/ \E p \in PairedStreams : CloseChan(p)
    \/ Tick
    \/ \E id \in sessions, encodable \in BOOLEAN :
          broadcasts < MaxLoopBroadcasts /\ Broadcast(id, encodable)

SpecLoop == Init /\ [][NextLoop]_vars

\* the steps of a stream handler outside its select: at most one is enabled
HandlerStep(p) ==
    \/ GetAttach(p) \/ GetConnected(p) \/ GetCleanup(p)
    \/ LegacyRegister(p) \/ LegacyCleanup(p)
    \/ CloseChan(p)

LoopFairness ==
    /\ \A p \in PairedStreams :
          /\ WF_vars(HandlerStep(p))
          /\ WF_vars(LoopDisconnect(p))
          /\ WF_vars(LoopMessage(p))
          /\ WF_vars(LoopKeepalive(p))
    /\ WF_vars(Tick)

FairLoop == SpecLoop /\ LoopFairness

(***************************************************************************)
(* The same with a DELETE handler, whose second step is the scheduler's    *)
(* too.                                                                    *)
(***************************************************************************)
NextTeardown ==
    \/ NextLoop
    \/ \E header \in sessions : DeleteValidate(1, header)
    \/ DeleteSession(1)

SpecTeardown == Init /\ [][NextTeardown]_vars

FairTeardown == SpecTeardown /\ LoopFairness /\ WF_vars(DeleteSession(1))

(***************************************************************************)
(* Delivery to the subscribers of one session, from the broadcast to the   *)
(* data event: unified streams that attach, read and go away, enough       *)
(* broadcasts to fill a queue that is not read, and among the first of     *)
(* them messages that json.Marshal rejects.                                *)
(***************************************************************************)
NextDelivery ==
    \/ \E body \in InitializeBodies : sessions = {} /\ handlePost(body, NoId)
    \/ \E p \in PairedStreams, header \in sessions : GetConnect(p, header, TRUE)
    \/ \E p \in PairedStreams : GetAttach(p)
    \/ \E p \in PairedStreams : GetConnected(p)
    \/ \E p \in PairedStreams : LoopMessage(p)
    \/ \E p \in PairedStreams : Disconnect(p)
    \/ \E p \in PairedStreams : LoopDisconnect(p)
    \/ \E p \in PairedStreams : GetCleanup(p)
    \/ \E p \in PairedStreams : CloseChan(p)
    \/ \E id \in sessions, encodable \in BOOLEAN :
          (encodable \/ broadcasts < MaxLoopBroadcasts) /\ Broadcast(id, encodable)

SpecDelivery == Init /\ [][NextDelivery]_vars

(***************************************************************************)
(* Fan-out across sessions: two sessions, three unified streams that       *)
(* attach at different moments and are not read, and broadcasts, the first *)
(* of them to any identifier and the rest to the first session, enough to  *)
(* fill the queue of its earliest subscriber.                              *)
(***************************************************************************)
NextScope ==
    \/ \E body \in InitializeBodies : handlePost(body, NoId)
    \/ \E p \in Streams, header \in sessions : GetConnect(p, header, TRUE)
    \/ \E p \in Streams : GetAttach(p)
    \/ \E p \in Streams : GetConnected(p)
    \/ \E id \in Headers :
          (id = 1 \/ broadcasts < MaxLoopBroadcasts) /\ Broadcast(id, TRUE)

SpecScope == Init /\ [][NextScope]_vars

(***************************************************************************)
(* Broadcasts addressed to any identifier, known or not, among sessions    *)
(* that come and go and unified streams that attach and detach.            *)
(***************************************************************************)
NextFanout ==
    \/ \E body \in InitializeBodies : handlePost(body, NoId)
    \/ \E header \in Headers : DeleteValidate(1, header)
    \/ DeleteSession(1)
    \/ \E p \in PairedStreams, header \in Headers : GetConnect(p, header, TRUE)
    \/ \E p \in PairedStreams : GetAttach(p)
    \/ \E p \in PairedStreams : GetConnected(p)
    \/ \E p \in PairedStreams : GetCleanup(p)
    \/ \E p \in PairedStreams : Disconnect(p)
    \/ \E p \in PairedStreams : LoopDisconnect(p)
    \/ \E p \in PairedStreams : CloseChan(p)
    \/ \E id \in Headers, encodable \in BOOLEAN :
          broadcasts < MaxLoopBroadcasts /\ Broadcast(id, encodable)

SpecFanout == Init /\ [][NextFanout]_vars

(***************************************************************************)
(* The registry with the requests that are turned away before any session  *)
(* is looked at: bodies that do not decode and unsupported HTTP methods,    *)
(* arriving among the traffic of SpecSessions.                             *)
(***************************************************************************)
NextRejects ==
    \/ NextSessions
    \/ \E header \in Headers : handlePost(Garbage, header)
    \/ MethodNotAllowed

SpecRejects == Init /\ [][NextRejects]_vars

(***************************************************************************)
(* The same traffic with response writers that cannot stream: a GET or a   *)
(* legacy connection may find that its http.ResponseWriter is no           *)
(* http.Flusher.                                                           *)
(***************************************************************************)
NextTransport ==
    \/ NextRejects
    \/ \E p \in PairedStreams, header \in Headers : GetConnect(p, header, FALSE)
    \/ \E p \in PairedStreams : LegacyConnect(p, FALSE)

SpecTransport == Init /\ [][NextTransport]_vars

(***************************************************************************)
(* The dispatcher on its own: POST with every shape of body against the    *)
(* session table, the other HTTP methods and DELETE; no streams.           *)
(***************************************************************************)
\* the ids a client may send: none, null, a number, a string, and a number
\* beyond the integers a float64 holds one by one
DispatchIds == {Absent, JNull, JNum(7), JStr("a"), JBig(1)}

CancelledParams ==
    { JObj([requestId |-> JStr("r1")]),
      JObj([requestId |-> JNum(5)]),
      JObj(<< >>),
      JNull,
      JStr("r1"),
      Absent }

ToolCallParams ==
    { JObj([name |-> JStr("get_weather"),
            arguments |-> JObj([location |-> JStr("Boston")])]),
      JObj([name |-> JStr("get_weather"), arguments |-> JObj(<< >>)]),
      JObj([name |-> JStr("get_weather"), arguments |-> JObj([location |-> JNum(5)])]),
      JObj([name |-> JStr("get_weather"), arguments |-> JStr("Boston")]),
      JObj([name |-> JStr("get_weather"), arguments |-> JNull]),
      JObj([name |-> JStr("get_weather")]),
      JObj([name |-> JStr("get_time"),
            arguments |-> JObj([location |-> JStr("Boston")])]),
      JObj([name |-> JNum(1)]),
      JObj(<< >>),
      JNull,
      Absent }

DispatchBodies ==
    {Garbage}
    \cup {Request(id, m, Absent) :
             id \in DispatchIds, m \in {"initialize", "ping", "tools/list", "foo/bar", ""}}
    \cup {Request(id, "notifications/cancelled", params) :
             id \in DispatchIds, params \in CancelledParams}
    \cup {Request(id, "tools/call", params) :
             id \in DispatchIds, params \in ToolCallParams}

NextDispatch ==
    \/ \E body \in DispatchBodies, header \in Headers : handlePost(body, header)
    \/ MethodNotAllowed
    \/ \E d \in Deleters, header \in Headers : DeleteValidate(d, header)
    \/ \E d \in Deleters : DeleteSession(d)

SpecDispatch == Init /\ [][NextDispatch]_vars

(***************************************************************************)
(* Requests in flight: POSTs cut at the entry of processRequest, so that   *)
(* a notifications/cancelled can arrive while the request it names is      *)
(* being dispatched.                                                       *)
(***************************************************************************)
RequestBodies ==
    { Request(JStr("r1"), "ping", Absent),
      Request(JStr("r1"), "tools/call",
              JObj([name |-> JStr("get_weather"),
                    arguments |-> JObj([location |-> JStr("Boston")])])),
      Request(JStr("r2"), "tools/list", Absent),
      Request(JStr("r2"), "foo/bar", Absent),
      Request(Absent, "notifications/cancelled", JObj([requestId |-> JStr("r1")])),
      Request(Absent, "notifications/cancelled", JObj([requestId |-> JStr("r2")])) }

NextRequests ==
    \/ \E body \in InitializeBodies, header \in Headers : handlePost(body, header)
    \/ \E body \in RequestBodies, header \in Headers : PostBegin(body, header)
    \/ \E req \in inflight : PostEnd(req)
    \/ \E d \in Deleters, header \in Headers : DeleteValidate(d, header)
    \/ \E d \in Deleters : DeleteSession(d)

SpecRequests == Init /\ [][NextRequests]_vars

(***************************************************************************)
(* The claims.                                                             *)
(***************************************************************************)
\* a session made by initialize (a legacy session has no capabilities)
InitSession(id) == heap[id] # Null /\ heap[id].Capabilities = DefaultCapabilities

\* a header that names no session of the table
Unknown(header) == header = NoId \/ header \notin sessions

tableVars == <<sessions, heap, sessionMutex>>

C1_Step(id) ==
    /\ id \notin Issued => ~validateSession(id)
    /\ id \notin Issued /\ InitSession(id)' => validateSession(id)'
    /\ InitSession(id) /\ validateSession(id) /\ ~validateSession(id)'
          => \E d \in Deleters : dpc[d] = "delete" /\ dsid[d] = id /\ DeleteSession(d)
    /\ InitSession(id) /\ ~validateSession(id) => ~validateSession(id)'

\* C1: validateSession is false for the empty identifier and for every
\* identifier no creation has returned; an identifier returned by initialize
\* validates from that step on, through every step of every other handler,
\* until a DELETE carrying it removes it, and never validates again after.
C1_SessionValidity ==
    [][ /\ ~validateSession(NoId) /\ ~validateSession(NoId)'
        /\ \A id \in Ids : C1_Step(id) ]_vars

C1_Witness ==
    \E id \in Ids, other \in Ids :
        /\ InitSession(id) /\ ~validateSession(id)
        /\ InitSession(other) /\ validateSession(other)
        /\ heap[other].MessageChannels # << >>
        /\ resp.op = "DELETE"

\* C2: a POST other than initialize, and a GET of the unified endpoint, whose
\* Mcp-Session-Id is missing, empty or unknown is answered 404 with the plain
\* text of http.Error and changes nothing: no envelope, no cancellation, no
\* channel made or attached.
C2_UnknownSessionIs404 ==
    [][ /\ \A body \in PostBodies \ {Garbage}, header \in Headers :
              body.method # "initialize" /\ Unknown(header) /\ handlePost(body, header)
                 => /\ resp' = HttpError("POST", "Invalid session", 404)
                    /\ UNCHANGED <<tableVars, requestVars, streamVars, deleteVars>>
        /\ \A p \in Streams, header \in Headers, flusher \in BOOLEAN :
              Unknown(header) /\ GetConnect(p, header, flusher)
                 => /\ resp' = HttpError("GET", "Invalid session", 404)
                    /\ UNCHANGED <<tableVars, requestVars, streamVars, deleteVars>> ]_vars

C2_Witness ==
    /\ resp = HttpError("POST", "Invalid session", 404)
    /\ sessions # {}
    /\ \E id \in Issued : id \notin sessions

\* C3: initialize does the same whatever the Mcp-Session-Id header holds: it
\* is as ready to run under one header as under another, it inserts exactly
\* one new session with the default capabilities and no subscribers, names
\* the new identifier in the response header, and leaves every other session
\* object, every channel and every stream as they were.
C3_InitializeIgnoresHeader ==
    [][ \A body \in InitializeBodies :
          /\ \A h1 \in Headers, h2 \in Headers :
                ENABLED handlePost(body, h1) <=> ENABLED handlePost(body, h2)
          /\ \A header \in Headers :
                handlePost(body, header)
                   => \E id \in Ids \ Issued :
                         /\ sessions' = sessions \cup {id}
                         /\ heap' = [heap EXCEPT
                                        ![id] = NewSession(id, DefaultCapabilities, << >>)]
                         /\ resp'.status = 200 /\ resp'.sid = id
                         /\ resp'.body.id = body.id
                         /\ resp'.body.result = JObj([capabilities |-> DefaultCapabilities])
                         /\ resp'.body.error = NilPtr
                         /\ UNCHANGED <<sessionMutex, requestVars, streamVars, deleteVars>>
      ]_vars

C3_Witness ==
    /\ Cardinality(sessions) = 2
    /\ resp.op = "POST" /\ resp.sid \in sessions
    /\ \E id \in sessions \ {resp.sid} : heap[id].MessageChannels # << >>

\* a step that creates a session
Creation ==
    \/ \E body \in InitializeBodies, header \in Headers : handlePost(body, header)
    \/ \E p \in Streams : LegacyRegister(p)

Subscribers(id) ==
    IF id \in sessions
    THEN {heap[id].MessageChannels[i] : i \in DOMAIN heap[id].MessageChannels}
    ELSE {}

C5_Step(id, encodable) ==
    /\ CanRLock /\ broadcasts < MaxBroadcasts => ENABLED Broadcast(id, encodable)
    /\ Broadcast(id, encodable) =>
          /\ \A p \in Streams :
                Len(messageChan[p]) = ChanCap => messageChan'[p] = messageChan[p]
          /\ (\A p \in Subscribers(id) : ~closed(p)) =>
                /\ \A p \in Subscribers(id) :
                      Len(messageChan[p]) < ChanCap =>
                         messageChan'[p] =
                            Append(messageChan[p], Message(broadcasts + 1, encodable))
                /\ sessionMutex' = sessionMutex
          /\ resp' = resp
          /\ UNCHANGED <<sessions, heap>>

\* C5: broadcastToSession waits for nothing but the read lock: it can run
\* whatever the queues hold; a subscriber queue that holds ChanCap messages
\* is left exactly as it was (same messages, same order) and nothing is
\* reported to anyone; when no subscriber channel is closed every other
\* subscriber queue gets the message appended and the call returns with
\* the lock released.
C5_FullQueueDropsNew ==
    [][ /\ \A id \in Headers, encodable \in BOOLEAN : C5_Step(id, encodable)
        /\ \A p \in Streams : Len(messageChan'[p]) <= ChanCap ]_vars

C5_Witness ==
    \E p \in Streams, q \in Streams :
        /\ Len(messageChan[p]) = ChanCap
        /\ messageChan[p][ChanCap].seq < broadcasts
        /\ messageChan[q] # << >>
        /\ messageChan[q][Len(messageChan[q])].seq = broadcasts
        /\ \E id \in sessions : {p, q} \subseteq Subscribers(id)

\* the channels of a list other than c, in the order of the list
Without(chans, c) == SelectSeq(chans, LAMBDA ch : ch # c)

C6_Cleanup(p) ==
    LET sid == sessionID[p] IN
    /\ heap'[sid].MessageChannels = Without(heap[sid].MessageChannels, p)
    /\ heap'[sid].ID = sid /\ heap'[sid].Capabilities = heap[sid].Capabilities
    /\ \A id \in Ids \ {sid} : heap'[id] = heap[id]
    /\ \A q \in Streams \ {p} : messageChan'[q] = messageChan[q]
    /\ sessions' = sessions
    /\ validateSession(sid)'

\* C6: on the way out of a unified stream whose client went away (the
\* return from the loop, the deferred cleanup, the close of the channel)
\* with the session still in the table, the cleanup takes exactly this
\* stream's channel out of the session's list, the other channels keep
\* their relative order and their contents, and the table is not touched:
\* the session still validates.
C6_DetachKeepsSession ==
    [][ \A p \in Streams :
          /\ kind[p] = "get" /\ sessionID[p] \in sessions /\ GetCleanup(p)
                => C6_Cleanup(p)
          /\ kind[p] = "get" /\ (LoopDisconnect(p) \/ CloseChan(p))
                => UNCHANGED <<sessions, heap, messageChan>> ]_vars

C6_Witness ==
    \E p \in Streams :
        /\ kind[p] = "get" /\ pc[p] = "close"
        /\ sessionID[p] \in sessions
        /\ Len(heap[sessionID[p]].MessageChannels) = 2
        /\ \A i \in 1..2 : heap[sessionID[p]].MessageChannels[i] # p

\* C7: a legacy connection registers one new session whose channel list
\* is exactly its own channel, under an identifier that is handed to this
\* stream alone; its cleanup takes that identifier, and no other, out of the
\* table, so it no longer validates; no session object and no channel of
\* another stream changes on the way out.
C7_LegacyPrivateSession ==
    [][ \A p \in Streams :
          /\ LegacyRegister(p) =>
                \E id \in Ids \ Issued :
                   /\ sessions' = sessions \cup {id}
                   /\ heap' = [heap EXCEPT ![id] = NewSession(id, NilCapabilities, <<p>>)]
                   /\ sessionID'[p] = id
                   /\ \A q \in Streams \ {p} : sessionID[q] # id
                   /\ messageChan' = messageChan
          /\ LegacyCleanup(p) =>
                /\ sessions' = sessions \ {sessionID[p]}
                /\ ~validateSession(sessionID[p])'
                /\ heap' = heap
                /\ \A q \in Streams \ {p} : messageChan'[q] = messageChan[q]
          /\ kind[p] = "legacy" /\ (LoopDisconnect(p) \/ CloseChan(p))
                => UNCHANGED <<sessions, heap, messageChan>> ]_vars

C7_Witness ==
    \E p \in Streams :
        /\ kind[p] = "legacy" /\ pc[p] = "close"
        /\ sessionID[p] \in Issued /\ sessionID[p] \notin sessions
        /\ \E id \in sessions : heap[id].MessageChannels # << >>

\* the loop of stream p is left only by the notify case, a message or a
\* keepalive leaves it running, and the cleanup is entered from the loop's
\* return and never twice
C8_Step(p) ==
    /\ pc[p] = "loop" /\ pc'[p] # "loop" => notify[p] /\ LoopDisconnect(p)
    /\ LoopMessage(p) \/ LoopKeepalive(p) => pc'[p] = "loop"
    /\ GetCleanup(p) \/ LegacyCleanup(p) => pc[p] = "cleanup" /\ pc'[p] = "close"
    /\ pc'[p] = "cleanup" => pc[p] \in {"loop", "cleanup"}
    /\ pc[p] \in {"close", "done"} => pc'[p] \in {"close", "done"}

C8_ExitOnlyOnDisconnect == [][\A p \in Streams : C8_Step(p)]_vars

\* a handler died with sessionMutex held
MutexAbandoned == sessionMutex # "unlocked"

\* nobody unlocks for a handler that died: every later Lock and RLock waits
\* for ever, whatever requests still come
C8_MutexStaysAbandoned == [][MutexAbandoned => sessionMutex' = sessionMutex]_vars

C8_CleanupUnlessMutexAbandoned ==
    \A p \in Streams :
        (pc[p] = "loop" /\ notify[p]) ~> (pc[p] = "done" \/ MutexAbandoned)

\* C8: the loop of a stream, unified or legacy, is left only by the notify
\* case; after a message, encodable or not, and after a keepalive it is
\* still running; and once notify is raised the handler leaves the loop and
\* its cleanup runs to its end, the close of the channel, exactly once.
C8_LoopEndsOnDisconnect ==
    /\ C8_ExitOnlyOnDisconnect
    /\ \A p \in Streams : (pc[p] = "loop" /\ notify[p]) ~> pc[p] = "done"

C9_Step(p) ==
    /\ LoopKeepalive(p) =>
          /\ elapsed[p] >= KeepaliveSeconds
          /\ pc'[p] = "loop" /\ ~closed(p)'
          /\ lastEvent'[p] = "keepalive" /\ elapsed'[p] = 0
          /\ UNCHANGED <<sessions, heap, messageChan, notify>>
    /\ lastEvent'[p] = "keepalive" /\ lastEvent[p] # "keepalive" => LoopKeepalive(p)

\* stream p has something else to do than to wait
Busy(p) == notify[p] \/ messageChan[p] # << >>

\* C9: a stream in its loop whose client stays and whose queue stays empty
\* sees KeepaliveSeconds of silence pass and then emits the keepalive
\* comment, and only then; the keepalive leaves the stream in its loop, its
\* channel open and attached as before, with the silence counted from zero
\* again, so the next one follows in the same way.
C9_KeepaliveAfterSilence ==
    /\ [][\A p \in Streams : C9_Step(p)]_vars
    /\ \A p \in Streams :
          /\ (pc[p] = "loop" /\ elapsed[p] < KeepaliveSeconds)
                ~> ((pc[p] = "loop" /\ elapsed[p] >= KeepaliveSeconds) \/ Busy(p))
          /\ (pc[p] = "loop" /\ elapsed[p] >= KeepaliveSeconds)
                ~> ((pc[p] = "loop" /\ lastEvent[p] = "keepalive"
                                   /\ elapsed[p] < KeepaliveSeconds) \/ Busy(p))

C9_Witness ==
    \E p \in Streams :
        /\ pc[p] = "loop" /\ lastEvent[p] = "keepalive"
        /\ elapsed[p] >= KeepaliveSeconds
        /\ ~Busy(p)
        /\ sessionID[p] \in sessions
        /\ \E i \in DOMAIN heap[sessionID[p]].MessageChannels :
              heap[sessionID[p]].MessageChannels[i] = p

\* a POST of body on a session of the table
Dispatched(body, header) ==
    /\ body # Garbage
    /\ body.method # "initialize"
    /\ validateSession(header)
    /\ handlePost(body, header)

\* the answer to a notification: the headers of a 200 and not a byte of body
Unanswered == Http("POST", 200, NoId, NoBody)

CancelledBodies == {b \in DispatchBodies \ {Garbage} : b.method = "notifications/cancelled"}

\* what does hold: a notification whose params decode is not answered, and
\* with no record to match it changes nothing
C11_DecodableCancelledIsUnanswered ==
    [][ \A body \in CancelledBodies, header \in Headers :
          Dispatched(body, header) /\ ~UnmarshalCancellationParams(body.params).err
             => resp' = Unanswered /\ UNCHANGED <<sessions, heap, requestVars>> ]_vars

\* C11: notifications/cancelled on a valid session is not answered with an
\* envelope and reports no error, whatever its params are: a requestId that
\* matches no record, a requestId that is a number, params that are missing
\* or do not decode.
C11_CancelledIsUnanswered ==
    [][ \A body \in CancelledBodies, header \in Headers :
          Dispatched(body, header) => resp' = Unanswered ]_vars

\* a response body that is a JSON-RPC envelope
Envelope(body) == "jsonrpc" \in DOMAIN body

HasResult(body) == body.result # NilPtr

HasError(body) == body.error # NilPtr

\* what does hold: the only envelope of the POST path with neither member
\* is the zero Response, and none has both
C12_OneOrZeroResponse ==
    resp.op = "POST" /\ Envelope(resp.body)
       => \/ HasResult(resp.body) # HasError(resp.body)
          \/ resp.body = ZeroResponse

\* C12: every envelope the POST path writes, for every method and every
\* shape of params, carries exactly one of result and error.
C12_ExactlyOneOfResultOrError ==
    resp.op = "POST" /\ Envelope(resp.body)
       => HasResult(resp.body) # HasError(resp.body)

\* the requests a cancellation record can stand for: those with a string
\* id that are not themselves the notification
Cancellable(req) == req.method # "notifications/cancelled" /\ req.id.t = "str"

\* what does hold: no record is ever made, so none is ever cancelled
C13_NoRecordEver == activeRequests = {} /\ cancelled = {}

\* C13: a cancellation record for a request id is registered when the
\* dispatch of the request begins and stays until the dispatch ends or a
\* matching notifications/cancelled removes it (Active -> Completed |
\* Cancelled): a request being dispatched has its record, or has been
\* cancelled.
C13_ActiveWhileDispatched ==
    \A req \in inflight :
        Cancellable(req) => req.id.s \in activeRequests \cup cancelled

KnownMethods == {"initialize", "ping", "tools/list", "tools/call", "notifications/cancelled"}

UnknownMethodBodies == {b \in DispatchBodies \ {Garbage} : b.method \notin KnownMethods}

\* the answer of the POST path that carries the given envelope
Answer(envelope) == sendResponse("POST", NoId, envelope)

\* what does hold: the error envelope carries the id as the decoder kept it
C14_MethodNotFoundWithDecodedId ==
    [][ \A body \in UnknownMethodBodies, header \in Headers :
          Dispatched(body, header)
             => /\ resp' = Answer(Response("2.0", DecodeID(body.id), NilPtr,
                                   ErrorResponse(-32601, <<"Method not found: ", body.method>>)))
                /\ UNCHANGED <<sessions, heap, requestVars>> ]_vars

\* C14: on a valid session a POST whose method is none of the five known
\* ones is answered with error -32601, "Method not found: <method>", the id
\* of the request and no result, and the session registry is unchanged.
C14_MethodNotFoundEchoesId ==
    [][ \A body \in UnknownMethodBodies, header \in Headers :
          Dispatched(body, header)
             => /\ resp' = Answer(Response("2.0", body.id, NilPtr,
                                   ErrorResponse(-32601, <<"Method not found: ", body.method>>)))
                /\ UNCHANGED <<sessions, heap>> ]_vars

ParseError == sendError("POST", ErrorResponse(-32700, <<"Parse error">>))

\* C15: a POST whose body does not decode is answered with the error
\* envelope -32700 without an id, under every Mcp-Session-Id header (valid,
\* unknown, absent) and whatever lock is held; no session is created, no
\* request is dispatched, nothing else changes.
C15_ParseErrorWhateverTheSession ==
    [][ \A header \in Headers :
          /\ ENABLED handlePost(Garbage, header)
          /\ handlePost(Garbage, header)
                => /\ resp' = ParseError
                   /\ "jsonrpc" \in DOMAIN resp'.body /\ resp'.body.id = Absent
                   /\ HasError(resp'.body) /\ ~HasResult(resp'.body)
                   /\ UNCHANGED <<tableVars, heap, requestVars, streamVars, deleteVars>>
      ]_vars

\* a parse error answered while no session is valid, after one was deleted,
\* and while the write lock is held
C15_Witness ==
    /\ resp = ParseError
    /\ sessions = {} /\ Issued # {}
    /\ sessionMutex = "wlocked"

ToolCallBodies == {b \in DispatchBodies \ {Garbage} : b.method = "tools/call"}

\* the calls whose params decode and name the weather tool
WeatherBodies ==
    {b \in ToolCallBodies :
        /\ ~UnmarshalToolCallRequest(b.params).err
        /\ UnmarshalToolCallRequest(b.params).Name = "get_weather"}

\* the answer is a success envelope with the given id whose result is flagged
\* exactly when the arguments are missing or do not decode, and names the
\* decoded location when it is not flagged
WeatherAnswered(body, id) ==
    LET args == Field(body.params, "arguments")
        weatherArgs == UnmarshalWeatherArgs(args)
        failed == args = Absent \/ weatherArgs.err
    IN  /\ resp'.status = 200 /\ Envelope(resp'.body)
        /\ resp'.body.jsonrpc = "2.0" /\ resp'.body.id = id
        /\ HasResult(resp'.body) /\ ~HasError(resp'.body)
        /\ resp'.body.result.isError = failed
        /\ Len(resp'.body.result.content) = 1
        /\ ~failed => \E i \in DOMAIN resp'.body.result.content[1].text :
                          resp'.body.result.content[1].text[i] = weatherArgs.Location

\* what does hold: the tool-level answer, with the id as the decoder kept it
C16_WeatherToolLevelErrorWithDecodedId ==
    [][ \A body \in WeatherBodies, header \in Headers :
          Dispatched(body, header)
             => /\ WeatherAnswered(body, DecodeID(body.id))
                /\ UNCHANGED <<sessions, heap, requestVars>> ]_vars

\* C16: tools/call naming get_weather is always answered with a success
\* envelope (result, no error, the id of the request); the result has
\* isError true exactly when the arguments are missing or do not decode as
\* the tool's argument object, and otherwise isError false and the given
\* location in its content.
C16_WeatherToolLevelError ==
    [][ \A body \in WeatherBodies, header \in Headers :
          Dispatched(body, header) => WeatherAnswered(body, body.id) ]_vars

\* the calls whose params decode and name something else, or nothing
UnknownToolBodies ==
    {b \in ToolCallBodies :
        /\ ~UnmarshalToolCallRequest(b.params).err
        /\ UnmarshalToolCallRequest(b.params).Name # "get_weather"}

UnknownTool(body, id) ==
    /\ resp' = Answer(Response("2.0", id, NilPtr,
                     ErrorResponse(-32602,
                        <<"Unknown tool: ", UnmarshalToolCallRequest(body.params).Name>>)))
    /\ ~HasResult(resp'.body)

\* what does hold: the error names the tool and carries the id as the
\* decoder kept it
C17_UnknownToolWithDecodedId ==
    [][ \A body \in UnknownToolBodies, header \in Headers :
          Dispatched(body, header)
             => /\ UnknownTool(body, DecodeID(body.id))
                /\ UNCHANGED <<sessions, heap, requestVars>> ]_vars

\* C17: tools/call whose decoded name is not in the catalog, an empty or
\* absent name included, is answered with error -32602 whose message names
\* that tool, with the id of the request and no result; no tool runs.
C17_UnknownTool ==
    [][ \A body \in UnknownToolBodies, header \in Headers :
          Dispatched(body, header) => UnknownTool(body, body.id) ]_vars

\* a broadcast that has nobody to reach: the identifier is not in the table,
\* or its session has no subscriber
NobodyToReach(id) == id \notin sessions \/ heap[id].MessageChannels = << >>

\* C18: broadcastToSession on an unknown session id, or on a session without
\* subscribers, returns with the read lock released and has changed neither
\* the session table nor any queue of any session; it waits for nothing but
\* the read lock.
C18_BroadcastToNobodyIsNoOp ==
    [][ \A id \in Headers, encodable \in BOOLEAN :
          NobodyToReach(id)
             => /\ CanRLock /\ broadcasts < MaxBroadcasts => ENABLED Broadcast(id, encodable)
                /\ Broadcast(id, encodable)
                      => UNCHANGED <<tableVars, messageChan, requestVars, streamVars,
                                     deleteVars, resp>>
      ]_vars

\* broadcasts have been made and every queue is still empty, with a stream
\* in its loop on one session and another session without subscribers
C18_Witness ==
    /\ broadcasts = MaxLoopBroadcasts
    /\ \A p \in Streams : messageChan[p] = << >>
    /\ sessionMutex = "unlocked"
    /\ \E id \in sessions : heap[id].MessageChannels = << >>
    /\ \E id \in sessions, p \in Streams :
          /\ pc[p] = "loop"
          /\ Subscribers(id) = {p}

\* what does hold: a handler that found no session at its attach has died
\* with the write lock, and its session stays out of the table
C19_PanicHoldsTheLock ==
    \A p \in Streams :
        pc[p] = "panic" => sessionMutex = "wlocked" /\ sessionID[p] \notin sessions

\* C19: a unified GET that passed validation attaches its queue to a session
\* that is still in the registry, however DELETEs of that id interleave: the
\* lookup of the attach step finds the session.
C19_AttachFindsSession ==
    [][ \A p \in Streams :
          GetAttach(p) => sessionID[p] \in sessions /\ pc'[p] = "connected" ]_vars

\* the channels a broadcast can reach: those in the list of a session of the
\* table
Reachable == UNION {Subscribers(id) : id \in sessions}

\* C20: no broadcast sends on a closed queue: under every interleaving with
\* the disconnects of unified and legacy streams and with DELETEs, a queue
\* that has been closed is in no list a broadcast can reach through the
\* session table, and no broadcast has died on a send with the read lock.
C20_NoSendOnClosedQueue ==
    /\ \A c \in Reachable : ~closed(c)
    /\ sessionMutex # "rlocked"
    /\ \A id \in sessions :
          ~Fanout(heap[id].MessageChannels, messageChan, Message(0, TRUE)).panic

\* a unified stream has closed its queue, and a message is queued for a
\* stream still in its loop on a session of the table
C20_Witness ==
    \E c \in Streams, q \in Streams :
        /\ closed(c) /\ kind[c] = "get"
        /\ q \in Reachable /\ pc[q] = "loop"
        /\ messageChan[q] # << >>
        /\ broadcasts = MaxLoopBroadcasts

\* C10: DELETE answers 204 whatever the header holds; it removes at most the
\* session it names, and naming an empty, unknown or already removed
\* identifier (also by a second DELETE that validated before the first one
\* deleted) changes neither the table nor any session object.
C10_DeleteIdempotent ==
    [][ /\ \A d \in Deleters, header \in Headers :
              DeleteValidate(d, header)
                 => /\ UNCHANGED <<tableVars, requestVars, streamVars>>
                    /\ Unknown(header) => resp' = Http("DELETE", 204, NoId, NoBody)
        /\ \A d \in Deleters :
              DeleteSession(d)
                 => /\ sessions' = sessions \ {dsid[d]}
                    /\ dsid[d] \notin sessions => sessions' = sessions
                    /\ resp' = Http("DELETE", 204, NoId, NoBody)
                    /\ UNCHANGED <<heap, sessionMutex, requestVars, streamVars>>
        /\ resp'.op = "DELETE" => resp'.status = 204 ]_vars

C10_Witness ==
    /\ resp = Http("DELETE", 204, NoId, NoBody)
    /\ \E d \in Deleters : dpc[d] = "delete" /\ dsid[d] \notin sessions
    /\ sessions # {}


\* what does hold: the mutex is held between two steps only when a unified
\* stream handler has died at its attach, and then it is the write lock
C21_HeldOnlyByDeadHandler ==
    sessionMutex # "unlocked"
       => sessionMutex = "wlocked" /\ \E p \in Streams : pc[p] = "panic"

\* C21: no handler keeps sessionMutex beyond its own critical section: with
\* any number of streams suspended in their loops the mutex is free, so that
\* every initialize, DELETE, broadcast, attach and cleanup that asks for it
\* gets it.
C21_MutexFreeBetweenSections == sessionMutex = "unlocked"


\* the numbers of the messages of a queue, in the order of the queue
Numbers(q) == [i \in DOMAIN q |-> q[i].seq]

Increasing(s) == \A i, j \in DOMAIN s : i < j => s[i] < s[j]

\* what a stream has written and what it still holds are, end to end,
\* broadcasts in the order they were made and none of them twice
InBroadcastOrder ==
    \A p \in Streams :
        LET s == emitted[p] \o Numbers(messageChan[p]) IN
        /\ Increasing(s)
        /\ \A i \in DOMAIN s : s[i] \in 1..broadcasts

Untouched(p) == messageChan'[p] = messageChan[p] /\ emitted'[p] = emitted[p]

\* a broadcast to the session the queue is attached to, with room in the queue
Enqueued(p) ==
    /\ \E id \in sessions, encodable \in BOOLEAN :
          /\ p \in Subscribers(id)
          /\ messageChan'[p] = Append(messageChan[p], Message(broadcasts + 1, encodable))
    /\ Len(messageChan[p]) < ChanCap
    /\ broadcasts' = broadcasts + 1
    /\ emitted'[p] = emitted[p]

\* the oldest message of the queue leaves it and is written as a data event
EmittedHead(p) ==
    /\ messageChan[p] # << >>
    /\ messageChan'[p] = Tail(messageChan[p])
    /\ emitted'[p] = Append(emitted[p], Head(messageChan[p]).seq)

\* the oldest message of the queue leaves it unwritten: it does not encode
SkippedHead(p) ==
    /\ messageChan[p] # << >>
    /\ ~Head(messageChan[p]).encodable
    /\ messageChan'[p] = Tail(messageChan[p])
    /\ emitted'[p] = emitted[p]

\* what was still queued when the client went away is dropped by the cleanup
DiscardedAtDisconnect(p) ==
    /\ notify[p] /\ pc[p] = "cleanup"
    /\ messageChan'[p] = << >>
    /\ emitted'[p] = emitted[p]

\* the handler returns
StreamEnded(p) ==
    /\ pc[p] = "close" /\ pc'[p] = "done"
    /\ messageChan'[p] = messageChan[p]

\* a broadcast to the session of an attached queue with room is not lost
NotMissed(p) ==
    \A id \in sessions, encodable \in BOOLEAN :
        Broadcast(id, encodable) /\ p \in Subscribers(id) /\ Len(messageChan[p]) < ChanCap
           => Enqueued(p)

\* C22 as amended: delivery to a subscriber keeps the order of the broadcasts
\* and writes no message twice; a message broadcast to the session while the
\* queue is attached is missing from the stream only if the queue was full,
\* if it was still queued at disconnect, or if it does not encode as JSON.
C22_OrderedAtMostOnceOrSkipped ==
    /\ []InBroadcastOrder
    /\ [][ \A p \in Streams :
             /\ NotMissed(p)
             /\ \/ Untouched(p)
                \/ Enqueued(p)
                \/ EmittedHead(p) /\ Head(messageChan[p]).encodable
                \/ SkippedHead(p)
                \/ DiscardedAtDisconnect(p)
                \/ StreamEnded(p) ]_vars

\* C22: delivery to a subscriber keeps the order of the broadcasts and
\* writes no message twice; the only messages missing from the stream are
\* those broadcast while the queue was full and those still queued at
\* disconnect.
C22_OrderedAtMostOnce ==
    /\ []InBroadcastOrder
    /\ [][ \A p \in Streams :
             /\ NotMissed(p)
             /\ \/ Untouched(p)
                \/ Enqueued(p)
                \/ EmittedHead(p)
                \/ DiscardedAtDisconnect(p)
                \/ StreamEnded(p) ]_vars

\* a stream that was never full and whose client is still there has written
\* messages 1 and 3 of three and holds nothing: message 2 was skipped
C22_Witness ==
    \E p \in Streams :
        /\ pc[p] = "loop" /\ ~notify[p]
        /\ broadcasts = 3
        /\ emitted[p] = <<1, 3>>
        /\ messageChan[p] = << >>


C23_Step(id, encodable) ==
    Broadcast(id, encodable) /\ id \in sessions
       => /\ \A p \in Subscribers(id) :
                messageChan'[p] =
                   IF Len(messageChan[p]) < ChanCap
                   THEN Append(messageChan[p], Message(broadcasts + 1, encodable))
                   ELSE messageChan[p]
          /\ \A p \in Streams \ Subscribers(id) : messageChan'[p] = messageChan[p]
          /\ UNCHANGED <<sessions, heap, sessionMutex>>

\* C23: one broadcastToSession(id, m) appends m to every subscriber queue
\* of session id that has room, also when other queues of that session are
\* full, and changes no queue of any other session.
C23_FanoutPerSubscriberAndSession ==
    [][ \A id \in Headers, encodable \in BOOLEAN : C23_Step(id, encodable) ]_vars

\* of two subscribers of one session the first is full and has missed the
\* last broadcast, which the second has got; a stream of another session
\* has got none of the broadcasts
C23_Witness ==
    \E id \in sessions, other \in sessions, p \in Streams, q \in Streams, r \in Streams :
        /\ id # other
        /\ {p, q} \subseteq Subscribers(id) /\ r \in Subscribers(other)
        /\ broadcasts = MaxBroadcasts
        /\ Len(messageChan[p]) = ChanCap
        /\ messageChan[p][ChanCap].seq < broadcasts
        /\ messageChan[q] # << >>
        /\ messageChan[q][Len(messageChan[q])].seq = broadcasts
        /\ messageChan[r] = << >>


\* a unified stream that has written nothing yet
Silent(p) == lastEvent[p] = "none" /\ emitted[p] = << >>

\* the step writes a data event or a keepalive on stream p
WritesEvent(p) ==
    \/ emitted'[p] # emitted[p] /\ emitted'[p] # << >>
    \/ lastEvent'[p] \in {"data", "keepalive"} /\ lastEvent'[p] # lastEvent[p]

C24_Step(p) ==
    \* the connected event is written by a handler that has attached and has
    \* written nothing, and it leaves the queue as the broadcasts made it
    /\ GetConnected(p)
          => /\ Silent(p) /\ lastEvent'[p] = "connected"
             /\ \E i \in DOMAIN heap[sessionID[p]].MessageChannels :
                   heap[sessionID[p]].MessageChannels[i] = p
             /\ messageChan'[p] = messageChan[p]
    \* the loop is entered by writing the connected event, and once
    /\ pc'[p] = "loop" /\ pc[p] # "loop"
          => pc[p] = "connected" /\ lastEvent'[p] = "connected"
    /\ pc[p] \in {"loop", "cleanup", "close", "done", "panic"}
          => pc'[p] \notin {"attach", "connected"}
    /\ lastEvent'[p] = "connected" /\ lastEvent[p] # "connected" => pc[p] = "connected"
    \* data events and keepalives are written from the loop only
    /\ WritesEvent(p) => pc[p] = "loop"
    \* a broadcast before the connected event is queued
    /\ \A id \in sessions, encodable \in BOOLEAN :
          /\ pc[p] = "connected" /\ p \in Subscribers(id)
          /\ Len(messageChan[p]) < ChanCap
          /\ Broadcast(id, encodable)
          => /\ messageChan'[p] = Append(messageChan[p], Message(broadcasts + 1, encodable))
             /\ Silent(p)'

\* C24: a unified stream attaches, writes the connected event, then runs its
\* loop: the connected event is written exactly once and before every data
\* event and keepalive; a message broadcast between the attach and the
\* connected event is queued, neither written first nor lost.
C24_ConnectedFirst ==
    /\ [](\A p \in Streams :
             kind[p] = "get" /\ pc[p] \in {"attach", "connected"} => Silent(p))
    /\ [][ \A p \in Streams : kind'[p] = "get" => C24_Step(p) ]_vars

\* a message is queued on a stream that has attached and not yet written
\* its connected event, while another stream has written a data event
C24_Witness ==
    \E p \in Streams, q \in Streams :
        /\ kind[p] = "get" /\ pc[p] = "connected"
        /\ messageChan[p] # << >> /\ Silent(p)
        /\ kind[q] = "get" /\ pc[q] = "loop" /\ emitted[q] # << >>


\* a unified stream whose session has been deleted under it
Orphaned(p) ==
    /\ kind[p] = "get" /\ pc[p] \in {"loop", "cleanup"}
    /\ sessionID[p] \notin sessions

C25_Step(p) ==
    \* the session does not come back
    /\ sessionID[p] \notin sessions'
    \* the loop goes on until the stream's own client has gone
    /\ pc[p] = "loop" /\ pc'[p] # "loop" => notify[p] /\ pc'[p] = "cleanup"
    /\ pc[p] = "loop" /\ elapsed[p] >= KeepaliveSeconds => ENABLED LoopKeepalive(p)
    \* no broadcast reaches the queue
    /\ Len(messageChan'[p]) <= Len(messageChan[p])
    \* the cleanup touches no entry of the table
    /\ GetCleanup(p)
          => /\ sessions' = sessions
             /\ \A id \in sessions : heap'[id] = heap[id]
             /\ pc'[p] = "close"

\* what does hold: DELETE takes the session out of the table and leaves the
\* streams as they are; an orphaned stream stays in its loop until its own
\* client goes, can still write keepalives, gets no message, and its cleanup
\* changes no entry of the table
C25_DeleteLeavesStreams ==
    [][ /\ \A d \in Deleters :
              DeleteSession(d)
                 => /\ sessions' = sessions \ {dsid[d]}
                    /\ UNCHANGED <<heap, streamVars>>
        /\ \A p \in Streams : Orphaned(p) => C25_Step(p) ]_vars

\* what does hold: the cleanup of an orphaned stream ends, unless a handler
\* has died with the mutex
C25_CleanupUnlessMutexAbandoned ==
    \A p \in PairedStreams :
        (Orphaned(p) /\ notify[p]) ~> (pc[p] = "done" \/ MutexAbandoned)

\* C25: DELETE of a session with attached unified streams takes the session
\* out of the registry and does not end the streams: each stays in its loop,
\* keepalives included, until its own client disconnects, gets no message
\* from a later broadcast, and at disconnect its cleanup runs to its end
\* without changing an entry of the session table.
C25_OrphanedStreamRunsToItsEnd ==
    /\ C25_DeleteLeavesStreams
    /\ \A p \in PairedStreams : (Orphaned(p) /\ notify[p]) ~> (pc[p] = "done")

\* message n waits in the queue of stream p, whose handler is past its attach
Queued(p, n) ==
    /\ pc[p] \in {"connected", "loop"}
    /\ \E i \in DOMAIN messageChan[p] : messageChan[p][i].seq = n

\* the same, and json.Marshal accepts the message
QueuedEncodable(p, n) ==
    /\ pc[p] \in {"connected", "loop"}
    /\ \E i \in DOMAIN messageChan[p] :
          messageChan[p][i].seq = n /\ messageChan[p][i].encodable

\* message n went out as a data event on stream p
DataEvent(p, n) == \E i \in DOMAIN emitted[p] : emitted[p][i] = n

\* with the disconnect raised and a message queued, both cases of the select are ready
EitherCaseReady ==
    \A p \in PairedStreams :
        pc[p] = "loop" /\ notify[p] /\ messageChan[p] # << >>
           => ENABLED LoopDisconnect(p) /\ ENABLED LoopMessage(p)

\* what does hold: under fair scheduling of the loop a queued message that
\* encodes goes out as a data event unless the disconnect is raised first,
\* and with both ready the loop may take either case
C26_EncodableQueuedIsEmitted ==
    /\ []EitherCaseReady
    /\ \A p \in PairedStreams, n \in 1..MaxLoopBroadcasts :
          QueuedEncodable(p, n) ~> (DataEvent(p, n) \/ notify[p])

\* C26: under fair scheduling of the stream loop every message enqueued in a
\* subscriber queue is eventually emitted as a data event on that stream,
\* unless the client's disconnect signal is raised first; with the disconnect
\* and a queued message both ready the loop may take either.
C26_QueuedIsEmitted ==
    /\ []EitherCaseReady
    /\ \A p \in PairedStreams, n \in 1..MaxLoopBroadcasts :
          Queued(p, n) ~> (DataEvent(p, n) \/ notify[p])

C26_Witness ==
    \E p \in PairedStreams :
        /\ pc[p] = "loop" /\ ~notify[p]
        /\ emitted[p] = <<2>>
        /\ messageChan[p] = << >>
        /\ broadcasts = 2

\* the loop of stream p takes the message at the head of its queue
Dequeued(p) ==
    /\ pc[p] = "loop"
    /\ messageChan[p] # << >>
    /\ messageChan'[p] = Tail(messageChan[p])

\* the timer of the select is made anew by every pass of the loop: it
\* counts from the entry into the loop, from the last message taken,
\* encodable or not, or from the last keepalive, whichever came last, only
\* the clock advances it, and the keepalive is written only when it has run
\* its KeepaliveSeconds
C27_Step(p) ==
    /\ LoopKeepalive(p) => elapsed[p] >= KeepaliveSeconds /\ elapsed'[p] = 0
    /\ Dequeued(p) => elapsed'[p] = 0 /\ pc'[p] = "loop"
    /\ pc[p] # "loop" /\ pc'[p] = "loop" => elapsed'[p] = 0
    /\ pc[p] = "loop" /\ elapsed'[p] > elapsed[p] =>
          /\ Tick
          /\ elapsed'[p] = Min(elapsed[p] + TickSeconds, KeepaliveSeconds)
          /\ messageChan'[p] = messageChan[p] /\ lastEvent'[p] = lastEvent[p]
    /\ pc[p] = "loop" /\ elapsed'[p] < elapsed[p] =>
          Dequeued(p) \/ LoopKeepalive(p) \/ LoopDisconnect(p)
    /\ lastEvent'[p] = "keepalive" /\ lastEvent[p] # "keepalive" =>
          elapsed[p] >= KeepaliveSeconds

\* the silence on stream p never lasts KeepaliveSeconds
NeverSilent(p) == pc[p] = "loop" => elapsed[p] < KeepaliveSeconds

\* C27: the keepalive interval is measured from the last loop event, not
\* from the start of the stream: a keepalive is emitted only when
\* KeepaliveSeconds have passed with no message dequeued and no keepalive
\* emitted on that stream, every dequeued message, also one that fails to
\* encode, and every keepalive restarts the interval, so a stream on which
\* the silence never lasts KeepaliveSeconds never emits a keepalive.
C27_IntervalFromLastEvent ==
    /\ [][\A p \in PairedStreams : C27_Step(p)]_vars
    /\ \A p \in PairedStreams : []NeverSilent(p) => [](lastEvent[p] # "keepalive")

C27_Witness ==
    \E p \in PairedStreams :
        /\ pc[p] = "loop" /\ ~notify[p]
        /\ kind[p] = "legacy" /\ lastEvent[p] = "endpoint"
        /\ Issued = {sessionID[p]}
        /\ broadcasts = 2
        /\ emitted[p] = << >> /\ messageChan[p] = << >>
        /\ elapsed[p] = TickSeconds

\* what the handlers share: the session table with its session objects and
\* their subscriber queues, the cancellation registry and the streams
SharedState == <<sessions, heap, sessionMutex, requestVars, streamVars, deleteVars>>

C28_Step ==
    /\ MethodNotAllowed =>
          /\ resp' = HttpError("OTHER", "Method not allowed", 405)
          /\ UNCHANGED SharedState
    /\ \A p \in PairedStreams, header \in Headers, flusher \in BOOLEAN :
          GetConnect(p, header, flusher) =>
             /\ ~validateSession(header) =>
                   /\ resp' = HttpError("GET", "Invalid session", 404)
                   /\ UNCHANGED SharedState
             /\ validateSession(header) /\ ~flusher =>
                   /\ resp' = HttpError("GET", "Streaming unsupported", 500)
                   /\ UNCHANGED SharedState
    /\ \A p \in PairedStreams :
          /\ LegacyConnect(p, FALSE) =>
                /\ resp' = HttpError("SSE", "Streaming unsupported", 500)
                /\ UNCHANGED SharedState
          /\ \A flusher \in BOOLEAN :
                LegacyConnect(p, flusher) => UNCHANGED <<sessions, heap>>
          /\ LegacyRegister(p) => pc[p] = "register"
          /\ pc'[p] = "register" /\ pc[p] # "register" => LegacyConnect(p, TRUE)

\* C28: a request rejected at transport level, an unsupported HTTP method
\* (405), a GET with an invalid session (404), a GET or a legacy connection
\* whose response writer cannot stream (500), creates no session, attaches no
\* subscriber queue and changes neither the session table nor the
\* cancellation registry; the legacy endpoint registers its session only
\* after the streaming check has passed.
C28_RejectedLeavesState == [][C28_Step]_vars

C28_Witness ==
    /\ resp = HttpError("SSE", "Streaming unsupported", 500)
    /\ \E p \in PairedStreams :
          /\ kind[p] = "get" /\ pc[p] = "loop"
          /\ sessionID[p] \in sessions
          /\ heap[sessionID[p]].MessageChannels = <<p>>
    /\ \E q \in PairedStreams : pc[q] = "idle"

====
